---- MODULE Spec2Model ----
(***************************************************************************)
(* Model of voice_typing.py (VoiceTypingAssistant).                        *)
(*                                                                         *)
(* Three execution contexts share the assistant object without locks:     *)
(*   - the pynput listener thread (on_press / on_release, and through     *)
(*     on_press: toggle_recording, start_recording,                       *)
(*     stop_recording_and_transcribe);                                    *)
(*   - one PortAudio callback thread per open sd.InputStream              *)
(*     (audio_callback);                                                  *)
(*   - the main thread (the control loop of run, transcribe_and_type).    *)
(* Each thread has a program counter and moves one statement (or one      *)
(* condition evaluation) at a time; the steps of different threads        *)
(* interleave freely.                                                     *)
(*                                                                         *)
(* Time: the only use of time.time() is the difference                    *)
(* time.time() - silence_start_time compared with SILENCE_DURATION.       *)
(* silence_start_time is therefore represented by the time elapsed since  *)
(* it was set, in clock ticks, saturating at SILENCE_DURATION; None is    *)
(* the value NoTime.                                                      *)
(***************************************************************************)
EXTENDS Integers, Sequences, FiniteSets, TLC

\* ----------------------------------------------------------------- bounds
MaxSessions == 2   \* start_recording is entered at most this many times
MaxFrames == 3     \* a frame is delivered only while the buffer is shorter
MaxN == 2          \* leading silent frames of a synthetic frame sequence
MaxM == 2          \* non-silent frames of a synthetic frame sequence
MaxK == 4          \* trailing silent frames of a synthetic frame sequence
MaxD == 2          \* frame duration of a synthetic frame sequence, in ticks
MaxRun == 6        \* frames of an arbitrary frame sequence

\* -------------------------------------------------------------- constants
SILENCE_DURATION == 2      \* SILENCE_TIMEOUT, in clock ticks
NoTime == -1               \* silence_start_time is None

\* ------------------------------------------------------------------- keys
\* A key identifier of pynput: a member of the Key enum (kind "key") or a
\* KeyCode carrying the character reported by the OS (kind "code").
KeyOf(name) == [kind |-> "key", id |-> name, char |-> ""]
CodeOf(vk, ch) == [kind |-> "code", id |-> vk, char |-> ch]

ctrl_l == KeyOf("ctrl_l")
ctrl_r == KeyOf("ctrl_r")
alt_l == KeyOf("alt_l")
alt_r == KeyOf("alt_r")
shift_l == KeyOf("shift_l")
shift_r == KeyOf("shift_r")
cmd_l == KeyOf("cmd_l")
cmd_r == KeyOf("cmd_r")
key0 == CodeOf("vk48", "0")
numpad0 == CodeOf("vk96", "0")
keyA == CodeOf("vk65", "a")
keyShiftA == CodeOf("vk65", "A")
space == KeyOf("space")
esc == KeyOf("esc")

\* The keys the listener reports in this model.
Keys == {ctrl_l, ctrl_r, alt_l, key0}

\* HOTKEY strings, already split at '+'; the first is the default.
DefaultHotkey == <<"ctrl", "alt", "0">>

\* Hotkey strings with a token that is no modifier name, no special key name
\* and no single character.
InvalidHotkeys == {<<"ctrl", "alt", "foo">>,
                   <<"ctrl", "", "0">>,
                   <<"ctrl", "altgr", "0">>,
                   <<"hyper">>}

HotkeyStrs ==
  {DefaultHotkey, <<"Ctrl", "Alt", "0">>, <<"alt", "0">>} \cup InvalidHotkeys

\* The keys whose events the listener delivers while audio is modelled.
MainKeys == {ctrl_l, alt_l, key0}

Streams == 1..MaxSessions

VARIABLES
  hotkey_str,          \* self.hotkey_str, split at '+'
  pressed_keys,        \* self.pressed_keys
  hotkey_pressed,      \* self.hotkey_pressed (the edge flag)
  kpc,                 \* position of the listener thread
  is_recording,        \* self.is_recording
  should_transcribe,   \* self.should_transcribe
  has_detected_speech, \* self.has_detected_speech
  silence_start_time,  \* self.silence_start_time, as time elapsed since set
  audio_frames,        \* self.audio_frames: the stream each frame came from
  streams,             \* state of every sd.InputStream created so far
  stream,              \* self.stream (0: the attribute does not exist)
  sessions,            \* number of start_recording calls so far
  cbpc,                \* position of each stream's callback thread
  lpc,                 \* position of the main thread
  handed,              \* the frames transcribe_and_type has read
  speechSeen,          \* a non-silent frame was classified since start_recording
  stopEmpty,           \* the last manual stop found audio_frames empty
  lastEvent,           \* the key event the listener delivered last
  firedHeld,           \* toggle_recording was called since the hotkey
                       \* last became held
  transcribed,         \* number of transcribe_and_type calls so far
  bufferRead,          \* line 128 has read the buffer as it is now
  script,              \* synthetic frame sequence (N, M, K, d)
  fidx,                \* frames of the synthetic sequence delivered so far
  matched              \* result of the last is_hotkey_pressed() evaluation

vars == <<hotkey_str, pressed_keys, hotkey_pressed, kpc,
          is_recording, should_transcribe, has_detected_speech,
          silence_start_time, audio_frames, streams, stream, sessions,
          cbpc, lpc, handed, speechSeen, stopEmpty, lastEvent, firedHeld,
          transcribed, bufferRead, script, fidx,
          matched>>

keyVars == <<pressed_keys, hotkey_pressed>>
recVars == <<is_recording, should_transcribe, has_detected_speech,
             silence_start_time, audio_frames>>
streamVars == <<streams, stream>>
loopVars == <<lpc, handed>>
ghostVars ==
  <<speechSeen, stopEmpty, lastEvent, firedHeld, transcribed, bufferRead>>
frameVars == <<script, fidx, matched>>

\* ------------------------------------------------------------ parse_hotkey
\* str.lower() on the tokens that occur in HotkeyStrs.
Lower(tok) ==
  CASE tok = "Ctrl" -> "ctrl"
    [] tok = "CTRL" -> "ctrl"
    [] tok = "Alt" -> "alt"
    [] tok = "A" -> "a"
    [] OTHER -> tok

parse_hotkey(hs) == [i \in DOMAIN hs |-> Lower(hs[i])]

\* -------------------------------------------------------- is_hotkey_pressed
ModifierNames == {"ctrl", "control", "alt", "shift", "shift_l", "shift_r",
                  "ctrl_l", "ctrl_r", "alt_l", "alt_r", "cmd", "cmd_l", "cmd_r"}

modifier_map(part) ==
  CASE part = "ctrl" -> {ctrl_l, ctrl_r}
    [] part = "control" -> {ctrl_l, ctrl_r}
    [] part = "alt" -> {alt_l, alt_r}
    [] part = "shift" -> {shift_l, shift_r}
    [] part = "shift_l" -> {shift_l}
    [] part = "shift_r" -> {shift_r}
    [] part = "ctrl_l" -> {ctrl_l}
    [] part = "ctrl_r" -> {ctrl_r}
    [] part = "alt_l" -> {alt_l}
    [] part = "alt_r" -> {alt_r}
    [] part = "cmd" -> {cmd_l, cmd_r}
    [] part = "cmd_l" -> {cmd_l}
    [] part = "cmd_r" -> {cmd_r}

SpecialNames == {"space", "enter", "tab", "esc", "escape", "backspace",
                 "delete", "up", "down", "left", "right", "home", "end",
                 "page_up", "page_down", "insert", "f1", "f2", "f3", "f4",
                 "f5", "f6", "f7", "f8", "f9", "f10", "f11", "f12"}

special_key_map(part) == IF part = "escape" THEN KeyOf("esc") ELSE KeyOf(part)

\* len(part) == 1 for the tokens of this model.
SingleChars == {"0", "1", "a", "b", "A", "+", "x"}

PartHeld_UnknownPasses(part, pressed) ==
  IF part \in ModifierNames
    THEN \E key \in modifier_map(part) : key \in pressed
  ELSE IF part \in SpecialNames
    THEN special_key_map(part) \in pressed
  ELSE IF part \in SingleChars
    THEN \E key \in pressed : key.kind = "code" /\ key.char = part
  ELSE TRUE

\* One iteration of the loop over hotkey_parts: TRUE when the part does
\* not make is_hotkey_pressed return False.
PartHeld(part, pressed) ==
  IF part \in ModifierNames
    THEN \E key \in modifier_map(part) : key \in pressed
  ELSE IF part \in SpecialNames
    THEN special_key_map(part) \in pressed
  ELSE IF part \in SingleChars
    THEN \E key \in pressed : key.kind = "code" /\ key.char = part
  ELSE FALSE

is_hotkey_pressed(pressed, parts) ==
  \A i \in DOMAIN parts : PartHeld(parts[i], pressed)

HotkeyHeld(pressed) == is_hotkey_pressed(pressed, parse_hotkey(hotkey_str))

\* -------------------------------------------------------------------- Init
NoEvent == [kind |-> "none", key |-> ctrl_l]
NoScript == [n |-> 0, m |-> 0, k |-> 0, d |-> 0]

\* The state after __init__ and the first lines of run.
InitObject ==
  /\ pressed_keys = {}
  /\ hotkey_pressed = FALSE
  /\ lastEvent = NoEvent
  /\ firedHeld = FALSE
  /\ kpc = "idle"
  /\ is_recording = FALSE
  /\ should_transcribe = FALSE
  /\ has_detected_speech = FALSE
  /\ silence_start_time = NoTime
  /\ audio_frames = << >>
  /\ streams = [s \in Streams |-> "none"]
  /\ stream = 0
  /\ sessions = 0
  /\ cbpc = [s \in Streams |-> "idle"]
  /\ lpc = "poll"
  /\ handed = << >>
  /\ speechSeen = FALSE
  /\ stopEmpty = FALSE
  /\ transcribed = 0
  /\ bufferRead = FALSE

Init ==
  /\ hotkey_str = DefaultHotkey
  /\ InitObject
  /\ script = NoScript
  /\ fidx = 0
  /\ matched = "unknown"

\* ------------------------------------------------------- listener thread
\* on_press(key), up to the call of toggle_recording.
on_press(key) ==
  /\ kpc = "idle"
  /\ pressed_keys' = pressed_keys \cup {key}
  /\ IF HotkeyHeld(pressed_keys') /\ ~hotkey_pressed
       THEN hotkey_pressed' = TRUE /\ kpc' = "toggle"
       ELSE UNCHANGED <<hotkey_pressed, kpc>>
  /\ UNCHANGED <<hotkey_str, recVars, streamVars, sessions, cbpc, loopVars,
                 speechSeen, stopEmpty, transcribed, bufferRead, frameVars>>

IsCtrl_AnyKey(key) == TRUE

\* The test of on_release: the released key is a ctrl variant.
IsCtrl(key) == key = ctrl_l \/ key = ctrl_r

on_release(key) ==
  /\ kpc = "idle"
  /\ pressed_keys' = pressed_keys \ {key}
  /\ hotkey_pressed' = IF IsCtrl(key) THEN FALSE ELSE hotkey_pressed
  /\ UNCHANGED <<hotkey_str, kpc, recVars, streamVars, sessions, cbpc,
                 loopVars, speechSeen, stopEmpty, transcribed, bufferRead,
                 frameVars>>

\* toggle_recording: the test of is_recording.
toggle_recording ==
  /\ kpc = "toggle"
  /\ IF ~is_recording
       THEN sessions < MaxSessions /\ kpc' = "start101"
       ELSE kpc' = "stop118"
  /\ UNCHANGED <<hotkey_str, keyVars, recVars, streamVars, sessions, cbpc,
                 loopVars, ghostVars, frameVars>>

\* start_recording, statement by statement.
start101 ==
  /\ kpc = "start101"
  /\ is_recording' = TRUE
  /\ sessions' = sessions + 1
  /\ speechSeen' = FALSE
  /\ stopEmpty' = FALSE
  /\ kpc' = "start102"
  /\ UNCHANGED <<hotkey_str, keyVars, should_transcribe, has_detected_speech,
                 silence_start_time, audio_frames, streamVars, cbpc, loopVars,
                 lastEvent, firedHeld,
                 transcribed, bufferRead, frameVars>>

start102 ==
  /\ kpc = "start102"
  /\ audio_frames' = << >>
  /\ bufferRead' = FALSE
  /\ kpc' = "start104"
  /\ UNCHANGED <<hotkey_str, keyVars, is_recording, should_transcribe,
                 has_detected_speech, silence_start_time, streamVars,
                 sessions, cbpc, loopVars, speechSeen, stopEmpty, lastEvent,
                 firedHeld, transcribed, frameVars>>

start104 ==
  /\ kpc = "start104"
  /\ silence_start_time' = NoTime
  /\ kpc' = "start105"
  /\ UNCHANGED <<hotkey_str, keyVars, is_recording, should_transcribe,
                 has_detected_speech, audio_frames, streamVars, sessions,
                 cbpc, loopVars, ghostVars, frameVars>>

start105 ==
  /\ kpc = "start105"
  /\ has_detected_speech' = FALSE
  /\ kpc' = "start108"
  /\ UNCHANGED <<hotkey_str, keyVars, is_recording, should_transcribe,
                 silence_start_time, audio_frames, streamVars, sessions,
                 cbpc, loopVars, ghostVars, frameVars>>

\* self.stream = sd.InputStream(...): the stream is created, or the
\* constructor raises and on_press prints the error.
start108(ok) ==
  /\ kpc = "start108"
  /\ IF ok
       THEN /\ streams' = [streams EXCEPT ![sessions] = "created"]
            /\ stream' = sessions
            /\ kpc' = "start114"
       ELSE /\ UNCHANGED streamVars
            /\ kpc' = "idle"
  /\ UNCHANGED <<hotkey_str, keyVars, recVars, sessions, cbpc, loopVars,
                 ghostVars, frameVars>>

\* self.stream.start(): raises when the control loop has closed the
\* stream in the meantime.
start114 ==
  /\ kpc = "start114"
  /\ streams' = IF streams[stream] = "created"
                  THEN [streams EXCEPT ![stream] = "open"]
                  ELSE streams
  /\ kpc' = "idle"
  /\ UNCHANGED <<hotkey_str, keyVars, recVars, stream, sessions, cbpc,
                 loopVars, ghostVars, frameVars>>

\* stop_recording_and_transcribe.
stop118 ==
  /\ kpc = "stop118"
  /\ kpc' = IF ~is_recording THEN "idle" ELSE "stop121"
  /\ UNCHANGED <<hotkey_str, keyVars, recVars, streamVars, sessions, cbpc,
                 loopVars, ghostVars, frameVars>>

stop121_Transcribes ==
  /\ kpc = "stop121"
  /\ is_recording' = FALSE
  /\ stopEmpty' = (audio_frames = << >>)
  /\ kpc' = "trans128"
  /\ UNCHANGED <<hotkey_str, keyVars, should_transcribe, has_detected_speech,
                 silence_start_time, audio_frames, streamVars, sessions, cbpc,
                 loopVars, speechSeen, lastEvent, firedHeld,
                 transcribed, bufferRead, frameVars>>

stop121 ==
  /\ kpc = "stop121"
  /\ is_recording' = FALSE
  /\ stopEmpty' = (audio_frames = << >>)
  /\ kpc' = "idle"
  /\ UNCHANGED <<hotkey_str, keyVars, should_transcribe, has_detected_speech,
                 silence_start_time, audio_frames, streamVars, sessions, cbpc,
                 loopVars, speechSeen, lastEvent, firedHeld,
                 transcribed, bufferRead, frameVars>>

\* ------------------------------------------------- audio callback threads
SilenceTimedOut_Strict(elapsed) == elapsed > SILENCE_DURATION

\* time.time() - self.silence_start_time >= self.SILENCE_DURATION
SilenceTimedOut(elapsed) == elapsed >= SILENCE_DURATION

\* The clock advances by dt ticks.
Elapse(t, dt) ==
  IF t = NoTime THEN NoTime
  ELSE IF t + dt >= SILENCE_DURATION THEN SILENCE_DURATION
  ELSE t + dt

Tick ==
  /\ silence_start_time # NoTime
  /\ silence_start_time < SILENCE_DURATION
  /\ silence_start_time' = Elapse(silence_start_time, 1)
  /\ UNCHANGED <<hotkey_str, keyVars, kpc, is_recording, should_transcribe,
                 has_detected_speech, audio_frames, streamVars, sessions,
                 cbpc, loopVars, ghostVars, frameVars>>

\* PortAudio invokes audio_callback of the open stream s with a frame.
CbDeliver(s) ==
  /\ streams[s] = "open"
  /\ cbpc[s] = "idle"
  /\ Len(audio_frames) < MaxFrames
  /\ cbpc' = [cbpc EXCEPT ![s] = "cb68"]
  /\ UNCHANGED <<hotkey_str, keyVars, kpc, recVars, streamVars, sessions,
                 loopVars, ghostVars, frameVars>>

\* if self.is_recording:
cb68_NoTest(s) ==
  /\ cbpc[s] = "cb68"
  /\ cbpc' = [cbpc EXCEPT ![s] = "cb69"]
  /\ UNCHANGED <<hotkey_str, keyVars, kpc, recVars, streamVars, sessions,
                 loopVars, ghostVars, frameVars>>

cb68(s) ==
  /\ cbpc[s] = "cb68"
  /\ cbpc' = [cbpc EXCEPT ![s] = IF is_recording THEN "cb69" ELSE "idle"]
  /\ UNCHANGED <<hotkey_str, keyVars, kpc, recVars, streamVars, sessions,
                 loopVars, ghostVars, frameVars>>

\* self.audio_frames.append(indata.copy()); the copy or the conversion of
\* line 72 may raise.
cb69(s, fail) ==
  /\ cbpc[s] = "cb69"
  /\ IF fail
       THEN /\ cbpc' = [cbpc EXCEPT ![s] = "cb92"]
            /\ UNCHANGED <<audio_frames, bufferRead>>
       ELSE /\ audio_frames' = Append(audio_frames, s)
            /\ bufferRead' = FALSE
            /\ cbpc' = [cbpc EXCEPT ![s] = "cb73"]
  /\ UNCHANGED <<hotkey_str, keyVars, kpc, is_recording, should_transcribe,
                 has_detected_speech, silence_start_time, streamVars,
                 sessions, loopVars, speechSeen, stopEmpty, lastEvent,
                 firedHeld, transcribed, frameVars>>

\* if self.is_silent(audio_data): and, for a silent frame, the test of
\* line 75. silent is is_silent of the frame.
cb73(s, silent) ==
  /\ cbpc[s] = "cb73"
  /\ IF silent
       THEN /\ cbpc' = [cbpc EXCEPT ![s] =
                 IF has_detected_speech /\ silence_start_time = NoTime
                   THEN "cb76" ELSE "cb77"]
            /\ UNCHANGED speechSeen
       ELSE /\ cbpc' = [cbpc EXCEPT ![s] = "cb89"]
            /\ speechSeen' = TRUE
  /\ UNCHANGED <<hotkey_str, keyVars, kpc, recVars, streamVars, sessions,
                 loopVars, stopEmpty, lastEvent, firedHeld,
                 transcribed, bufferRead, frameVars>>

\* self.silence_start_time = time.time()
cb76(s) ==
  /\ cbpc[s] = "cb76"
  /\ silence_start_time' = 0
  /\ cbpc' = [cbpc EXCEPT ![s] = "idle"]
  /\ UNCHANGED <<hotkey_str, keyVars, kpc, is_recording, should_transcribe,
                 has_detected_speech, audio_frames, streamVars, sessions,
                 loopVars, ghostVars, frameVars>>

\* elif self.has_detected_speech and time.time() - self.silence_start_time
\* >= self.SILENCE_DURATION; the subtraction raises TypeError on None.
cb77(s) ==
  /\ cbpc[s] = "cb77"
  /\ cbpc' = [cbpc EXCEPT ![s] =
       IF ~has_detected_speech THEN "idle"
       ELSE IF silence_start_time = NoTime THEN "cb92"
       ELSE IF SilenceTimedOut(silence_start_time) THEN "cb85"
       ELSE "idle"]
  /\ UNCHANGED <<hotkey_str, keyVars, kpc, recVars, streamVars, sessions,
                 loopVars, ghostVars, frameVars>>

\* self.should_transcribe = True
cb85(s) ==
  /\ cbpc[s] = "cb85"
  /\ should_transcribe' = TRUE
  /\ cbpc' = [cbpc EXCEPT ![s] = "cb86"]
  /\ UNCHANGED <<hotkey_str, keyVars, kpc, is_recording, has_detected_speech,
                 silence_start_time, audio_frames, streamVars, sessions,
                 loopVars, ghostVars, frameVars>>

\* self.is_recording = False
cb86(s) ==
  /\ cbpc[s] = "cb86"
  /\ is_recording' = FALSE
  /\ cbpc' = [cbpc EXCEPT ![s] = "idle"]
  /\ UNCHANGED <<hotkey_str, keyVars, kpc, should_transcribe,
                 has_detected_speech, silence_start_time, audio_frames,
                 streamVars, sessions, loopVars, ghostVars, frameVars>>

cb89_KeepsTimer(s) ==
  /\ cbpc[s] = "cb89"
  /\ cbpc' = [cbpc EXCEPT ![s] = "cb90"]
  /\ UNCHANGED <<hotkey_str, keyVars, kpc, recVars, streamVars, sessions,
                 loopVars, ghostVars, frameVars>>

\* self.silence_start_time = None
cb89(s) ==
  /\ cbpc[s] = "cb89"
  /\ silence_start_time' = NoTime
  /\ cbpc' = [cbpc EXCEPT ![s] = "cb90"]
  /\ UNCHANGED <<hotkey_str, keyVars, kpc, is_recording, should_transcribe,
                 has_detected_speech, audio_frames, streamVars, sessions,
                 loopVars, ghostVars, frameVars>>

\* self.has_detected_speech = True
cb90(s) ==
  /\ cbpc[s] = "cb90"
  /\ has_detected_speech' = TRUE
  /\ cbpc' = [cbpc EXCEPT ![s] = "idle"]
  /\ UNCHANGED <<hotkey_str, keyVars, kpc, is_recording, should_transcribe,
                 silence_start_time, audio_frames, streamVars, sessions,
                 loopVars, ghostVars, frameVars>>

\* except Exception as e: print(...)
cb92(s) ==
  /\ cbpc[s] = "cb92"
  /\ cbpc' = [cbpc EXCEPT ![s] = "idle"]
  /\ UNCHANGED <<hotkey_str, keyVars, kpc, recVars, streamVars, sessions,
                 loopVars, ghostVars, frameVars>>

\* ------------------------------------------------------------ main thread
\* if self.should_transcribe: self.should_transcribe = False
\* (no other thread resets the flag, so the test and the reset are one step)
loop278 ==
  /\ lpc = "poll"
  /\ should_transcribe
  /\ should_transcribe' = FALSE
  /\ lpc' = "loop282"
  /\ UNCHANGED <<hotkey_str, keyVars, kpc, is_recording, has_detected_speech,
                 silence_start_time, audio_frames, streamVars, sessions, cbpc,
                 handed, ghostVars, frameVars>>

\* if hasattr(self, "stream"): self.stream.stop(); self.stream.close()
\* stop() returns when the stream's callback is not running; stop and
\* close ignore errors, so a stream that is not open is left as it is,
\* except that a created stream is closed before it was started.
loop282 ==
  /\ lpc = "loop282"
  /\ IF stream = 0
       THEN UNCHANGED streams
       ELSE /\ cbpc[stream] = "idle"
            /\ streams' = [streams EXCEPT ![stream] = "closed"]
  /\ lpc' = "loop286"
  /\ UNCHANGED <<hotkey_str, keyVars, kpc, recVars, stream, sessions, cbpc,
                 handed, ghostVars, frameVars>>

\* if self.audio_frames:
loop286 ==
  /\ lpc = "loop286"
  /\ IF audio_frames # << >>
       THEN lpc' = "trans128" /\ transcribed' = transcribed + 1
       ELSE lpc' = "poll" /\ UNCHANGED transcribed
  /\ UNCHANGED <<hotkey_str, keyVars, kpc, recVars, streamVars, sessions,
                 cbpc, handed, speechSeen, stopEmpty, lastEvent, firedHeld,
                 bufferRead, frameVars>>

\* transcribe_and_type, line 128: np.concatenate(self.audio_frames) reads
\* the buffer and raises ValueError on an empty list (caught at line 171).
trans128 ==
  /\ lpc = "trans128"
  /\ IF audio_frames = << >>
       THEN lpc' = "poll" /\ UNCHANGED <<handed, bufferRead>>
       ELSE lpc' = "trans143" /\ handed' = audio_frames /\ bufferRead' = TRUE
  /\ UNCHANGED <<hotkey_str, keyVars, kpc, recVars, streamVars, sessions,
                 cbpc, speechSeen, stopEmpty, lastEvent, firedHeld,
                 transcribed, frameVars>>

\* The blocking transcription request and type_text return: the text is
\* typed, the text is empty, or an exception is caught and printed.
trans143(outcome) ==
  /\ lpc = "trans143"
  /\ outcome \in {"typed", "empty", "error"}
  /\ lpc' = "poll"
  /\ handed' = << >>
  /\ UNCHANGED <<hotkey_str, keyVars, kpc, recVars, streamVars, sessions,
                 cbpc, ghostVars, frameVars>>

\* -------------------------------------------------------------------- Spec
ListenerSteps ==
  \/ toggle_recording
  \/ start101 \/ start102 \/ start104 \/ start105
  \/ \E ok \in BOOLEAN : start108(ok)
  \/ start114
  \/ stop118 \/ stop121

Callback(s) ==
  \/ cb68(s)
  \/ \E fail \in BOOLEAN : cb69(s, fail)
  \/ \E silent \in BOOLEAN : cb73(s, silent)
  \/ cb76(s) \/ cb77(s) \/ cb85(s) \/ cb86(s) \/ cb89(s) \/ cb90(s)
  \/ cb92(s)

ControlLoop ==
  \/ loop278 \/ loop282 \/ loop286 \/ trans128
  \/ \E outcome \in {"typed", "empty", "error"} : trans143(outcome)

Next ==
  \/ \E key \in MainKeys : on_press(key) /\ UNCHANGED <<lastEvent, firedHeld>>
  \/ \E key \in MainKeys : on_release(key) /\ UNCHANGED <<lastEvent, firedHeld>>
  \/ ListenerSteps
  \/ \E s \in Streams : CbDeliver(s)
  \/ \E s \in Streams : Callback(s)
  \/ ControlLoop
  \/ Tick

Spec == Init /\ [][Next]_vars

\* ---------------------------------------------------- listener thread alone
\* The key events, with the event recorded, and the listener thread's own
\* steps, for any configured hotkey; no audio stream delivers a frame.
PressEvent(key) ==
  /\ on_press(key)
  /\ lastEvent' = [kind |-> "press", key |-> key]
  /\ firedHeld' = (HotkeyHeld(pressed_keys') /\ (firedHeld \/ kpc' = "toggle"))

ReleaseEvent(key) ==
  /\ on_release(key)
  /\ lastEvent' = [kind |-> "release", key |-> key]
  /\ firedHeld' = (HotkeyHeld(pressed_keys') /\ firedHeld)

InitKeys ==
  /\ hotkey_str \in HotkeyStrs
  /\ InitObject
  /\ script = NoScript
  /\ fidx = 0
  /\ matched = "unknown"

NextKeys ==
  \/ \E key \in Keys : PressEvent(key)
  \/ \E key \in Keys : ReleaseEvent(key)
  \/ ListenerSteps

SpecKeys == InitKeys /\ [][NextKeys]_vars

\* ------------------------------------------------ synthetic frame sequence
\* One recording session fed with script.n silent frames, then script.m
\* non-silent frames, then script.k silent frames, one every script.d
\* ticks, by a single stream; the listener and the control loop are idle.
Scripts ==
  {sc \in [n : 0..MaxN, m : 1..MaxM, k : 1..MaxK, d : 1..MaxD] :
     sc.k * sc.d >= SILENCE_DURATION}

\* is_silent of the i-th frame (1-based) of the sequence.
ScriptSilent(sc, i) == i <= sc.n \/ i > sc.n + sc.m

\* The state when start_recording has returned for the first session.
InitFrames ==
  /\ hotkey_str = DefaultHotkey
  /\ pressed_keys = {ctrl_l, alt_l, key0}
  /\ hotkey_pressed = TRUE
  /\ lastEvent = NoEvent
  /\ firedHeld = FALSE
  /\ kpc = "idle"
  /\ is_recording = TRUE
  /\ should_transcribe = FALSE
  /\ has_detected_speech = FALSE
  /\ silence_start_time = NoTime
  /\ audio_frames = << >>
  /\ streams = [s \in Streams |-> IF s = 1 THEN "open" ELSE "none"]
  /\ stream = 1
  /\ sessions = 1
  /\ cbpc = [s \in Streams |-> "idle"]
  /\ lpc = "poll"
  /\ handed = << >>
  /\ speechSeen = FALSE
  /\ stopEmpty = FALSE
  /\ transcribed = 0
  /\ bufferRead = FALSE
  /\ script \in Scripts
  /\ fidx = 0
  /\ matched = "unknown"

\* The next frame of the sequence arrives script.d ticks after the last.
FrameDeliver ==
  /\ streams[1] = "open"
  /\ cbpc[1] = "idle"
  /\ fidx < script.n + script.m + script.k
  /\ fidx' = fidx + 1
  /\ silence_start_time' = Elapse(silence_start_time, script.d)
  /\ cbpc' = [cbpc EXCEPT ![1] = "cb68"]
  /\ UNCHANGED <<hotkey_str, keyVars, kpc, is_recording, should_transcribe,
                 has_detected_speech, audio_frames, streamVars, sessions,
                 loopVars, ghostVars, script, matched>>

NextFrames ==
  \/ FrameDeliver
  \/ cb68(1)
  \/ cb69(1, FALSE)
  \/ cb73(1, ScriptSilent(script, fidx))
  \/ cb76(1) \/ cb77(1) \/ cb85(1) \/ cb86(1) \/ cb89(1) \/ cb90(1)

SpecFrames == InitFrames /\ [][NextFrames]_vars

\* The same session with the control loop running: the loop drains the
\* completed session and closes the stream while frames still arrive.
NextSession == NextFrames \/ ControlLoop

SpecSession == InitFrames /\ [][NextSession]_vars

\* ------------------------------------------------ arbitrary frame sequence
\* One recording session fed by a single stream with any sequence of
\* MaxRun frames, silent or not, one every script.d ticks.
RunScripts == [silent : [1..MaxRun -> BOOLEAN], d : 1..MaxD]

InitRuns ==
  /\ hotkey_str = DefaultHotkey
  /\ pressed_keys = {ctrl_l, alt_l, key0}
  /\ hotkey_pressed = TRUE
  /\ lastEvent = NoEvent
  /\ firedHeld = FALSE
  /\ kpc = "idle"
  /\ is_recording = TRUE
  /\ should_transcribe = FALSE
  /\ has_detected_speech = FALSE
  /\ silence_start_time = NoTime
  /\ audio_frames = << >>
  /\ streams = [s \in Streams |-> IF s = 1 THEN "open" ELSE "none"]
  /\ stream = 1
  /\ sessions = 1
  /\ cbpc = [s \in Streams |-> "idle"]
  /\ lpc = "poll"
  /\ handed = << >>
  /\ speechSeen = FALSE
  /\ stopEmpty = FALSE
  /\ transcribed = 0
  /\ bufferRead = FALSE
  /\ script \in RunScripts
  /\ fidx = 0
  /\ matched = "unknown"

\* The next frame arrives script.d ticks after the last.
RunDeliver ==
  /\ streams[1] = "open"
  /\ cbpc[1] = "idle"
  /\ fidx < MaxRun
  /\ fidx' = fidx + 1
  /\ silence_start_time' = Elapse(silence_start_time, script.d)
  /\ cbpc' = [cbpc EXCEPT ![1] = "cb68"]
  /\ UNCHANGED <<hotkey_str, keyVars, kpc, is_recording, should_transcribe,
                 has_detected_speech, audio_frames, streamVars, sessions,
                 loopVars, ghostVars, script, matched>>

NextRuns ==
  \/ RunDeliver
  \/ cb68(1)
  \/ cb69(1, FALSE)
  \/ cb73(1, script.silent[fidx])
  \/ cb76(1) \/ cb77(1) \/ cb85(1) \/ cb86(1) \/ cb89(1) \/ cb90(1)

SpecRuns == InitRuns /\ [][NextRuns]_vars

\* ------------------------------------------------------- the matcher alone
\* is_hotkey_pressed evaluated, as on_press does at line 248, for a hotkey
\* string and a set of held keys drawn from MatchHotkeys and MatchKeys.
MatchKeys == {ctrl_l, ctrl_r, alt_l, alt_r, shift_l, key0, numpad0, keyA,
              keyShiftA, space, esc}

\* Hotkey strings whose tokens are all modifier names, special key names
\* or single characters.
ValidHotkeys == {DefaultHotkey,
                 <<"Ctrl", "Alt", "0">>,
                 <<"ctrl_r", "a">>,
                 <<"control", "shift", "space">>,
                 <<"alt_r", "escape">>,
                 <<"shift_l", "A">>,
                 <<"alt", "esc", "0">>,
                 <<"a">>}

MatchHotkeys == ValidHotkeys \cup InvalidHotkeys

InitMatch ==
  /\ hotkey_str \in MatchHotkeys
  /\ pressed_keys \in SUBSET MatchKeys
  /\ hotkey_pressed = FALSE
  /\ lastEvent = NoEvent
  /\ firedHeld = FALSE
  /\ kpc = "idle"
  /\ is_recording = FALSE
  /\ should_transcribe = FALSE
  /\ has_detected_speech = FALSE
  /\ silence_start_time = NoTime
  /\ audio_frames = << >>
  /\ streams = [s \in Streams |-> "none"]
  /\ stream = 0
  /\ sessions = 0
  /\ cbpc = [s \in Streams |-> "idle"]
  /\ lpc = "poll"
  /\ handed = << >>
  /\ speechSeen = FALSE
  /\ stopEmpty = FALSE
  /\ transcribed = 0
  /\ bufferRead = FALSE
  /\ script = NoScript
  /\ fidx = 0
  /\ matched = "unknown"

\* self.is_hotkey_pressed()
Match ==
  /\ matched = "unknown"
  /\ matched' = IF HotkeyHeld(pressed_keys) THEN "yes" ELSE "no"
  /\ UNCHANGED <<hotkey_str, keyVars, kpc, recVars, streamVars, sessions,
                 cbpc, loopVars, ghostVars, script, fidx>>

SpecMatch == InitMatch /\ [][Match]_vars

\* ================================================================== claims

\* A key event step calls toggle_recording.
Fires == kpc = "idle" /\ kpc' = "toggle"

NoCtrlHeld == ctrl_l \notin pressed_keys /\ ctrl_r \notin pressed_keys

\* C1: a key event calls toggle_recording iff it is a press after which the
\* whole hotkey is held and hotkey_pressed was not set; the call sets the
\* flag, and the flag is cleared only by a release of ctrl_l or ctrl_r, so
\* no release fires and no two calls happen without a ctrl release in
\* between. With hotkey ctrl+alt+0, a press of '0' while no ctrl key is
\* held does not call toggle_recording.
C1_ToggleEdge ==
  [][ /\ kpc = "idle" =>
           (Fires <=> /\ lastEvent'.kind = "press"
                      /\ HotkeyHeld(pressed_keys')
                      /\ ~hotkey_pressed)
      /\ Fires => ~hotkey_pressed /\ hotkey_pressed'
      /\ (hotkey_pressed /\ ~hotkey_pressed') =>
           (lastEvent'.kind = "release" /\ lastEvent'.key \in {ctrl_l, ctrl_r})
      /\ ( /\ parse_hotkey(hotkey_str) = <<"ctrl", "alt", "0">>
           /\ kpc = "idle"
           /\ NoCtrlHeld
           /\ lastEvent' = [kind |-> "press", key |-> key0] ) => ~Fires
    ]_vars

\* C1 witness: with hotkey ctrl+alt+0 the toggle has fired, ctrl was
\* released with alt and '0' still held, and '0' was pressed again: the
\* listener is idle and the flag is not set.
C1_Witness ==
  /\ parse_hotkey(hotkey_str) = <<"ctrl", "alt", "0">>
  /\ sessions >= 1
  /\ NoCtrlHeld
  /\ {alt_l, key0} \subseteq pressed_keys
  /\ lastEvent = [kind |-> "press", key |-> key0]
  /\ kpc = "idle"
  /\ ~hotkey_pressed

\* The step of stop_recording_and_transcribe that stops the recording.
ManualStop == kpc = "stop121" /\ kpc' = "idle"

\* C2: when the toggle stops a recording, the session becomes
\* ReadyToTranscribe: is_recording is cleared and should_transcribe is set,
\* so that the control loop transcribes the buffer accumulated so far.
C2_ManualStopTranscribes ==
  [][ManualStop => (~is_recording' /\ should_transcribe')]_vars

\* A completed session is waiting for, or in, the control loop's processing.
InFlight == should_transcribe \/ lpc # "poll"

\* C3: between the completion of a session (should_transcribe set) and the
\* return of the control loop's transcription call, start_recording is not
\* entered and is_recording does not become true.
C3_OneInFlight ==
  [][InFlight => /\ ~(kpc = "toggle" /\ kpc' = "start101")
                 /\ ~(~is_recording /\ is_recording')]_vars

\* C4: the audio callback sets should_transcribe only in a session in which
\* a non-silent frame has been delivered since start_recording.
C4_NoAutoStopWithoutSpeech ==
  [][(\E s \in Streams : cbpc[s] = "cb85" /\ cbpc'[s] = "cb86")
       => speechSeen]_vars

\* C8: is_recording and should_transcribe are never both true.
C8_OneState == ~(is_recording /\ should_transcribe)

OpenStreams == {s \in Streams : streams[s] = "open"}

\* C9: at most one input stream is open, and none is open when the session
\* is Idle with the listener and the control loop at rest.
C9_StreamClosed ==
  /\ Cardinality(OpenStreams) <= 1
  /\ ( /\ ~is_recording
       /\ ~should_transcribe
       /\ kpc = "idle"
       /\ lpc = "poll" ) => OpenStreams = {}

\* C10: when the audio callback has swallowed an exception, and when the
\* transcription call has returned (with or without an error), the session
\* is Idle and the control loop is polling again.
C10_ErrorResetsToIdle ==
  [][ /\ \A s \in Streams :
           (cbpc[s] = "cb92" /\ cbpc'[s] = "idle")
             => (~is_recording' /\ ~should_transcribe')
      /\ (lpc = "trans143" /\ lpc' = "poll")
           => (~is_recording' /\ ~should_transcribe')
    ]_vars

\* Trailing silent frames of the synthetic sequence delivered so far.
Trailing == fidx - script.n - script.m

\* The synthetic sequence's last delivered frame has been processed.
FrameDone == cbpc[1] = "idle"

ReadyToTranscribe == should_transcribe /\ ~is_recording

\* C5 as stated: with N silent, M >= 1 non-silent and K silent frames of
\* duration d, K*d >= SILENCE_DURATION, the session is ReadyToTranscribe
\* once the trailing silent frames processed span the duration
\* (Trailing*d >= SILENCE_DURATION), and not before.
C5_StopsWhenSilenceSpansDuration ==
  FrameDone =>
    (ReadyToTranscribe <=>
       (Trailing >= 1 /\ Trailing * script.d >= SILENCE_DURATION))

\* C5 amended: the timer starts when the first trailing silent frame is
\* processed, so the session is ReadyToTranscribe once a trailing silent
\* frame arrives at least SILENCE_DURATION after the first one
\* ((Trailing - 1)*d >= SILENCE_DURATION), and not before.
C5_StopsAfterTimerSpansDuration ==
  FrameDone =>
    (ReadyToTranscribe <=>
       (Trailing >= 1 /\ (Trailing - 1) * script.d >= SILENCE_DURATION))

\* C5 witness: after leading silence and speech, the trailing silent frame
\* that first satisfies the timer has been processed and stopped the session.
C5_Witness ==
  /\ FrameDone
  /\ script.n >= 1
  /\ Trailing >= 2
  /\ (Trailing - 1) * script.d >= SILENCE_DURATION
  /\ (Trailing - 2) * script.d < SILENCE_DURATION
  /\ ReadyToTranscribe

\* C6: after a manual stop that found no frame in the buffer the session is
\* Idle (not recording, nothing to transcribe), and the control loop does
\* not call the transcription collaborator until the next start_recording.
C6_EmptyManualStop ==
  [][ /\ stopEmpty' => (~is_recording' /\ ~should_transcribe')
      /\ stopEmpty => ~(lpc # "trans143" /\ lpc' = "trans143")
    ]_vars

\* C7: an audio callback that finds is_recording false returns at once and
\* leaves audio_frames, has_detected_speech, silence_start_time,
\* is_recording and should_transcribe unchanged.
C7_FrameIgnoredWhenNotRecording ==
  [][\A s \in Streams :
       (cbpc[s] = "cb68" /\ ~is_recording /\ cbpc'[s] # "cb68")
         => (cbpc'[s] = "idle" /\ UNCHANGED recVars)]_vars

\* C7 witness: the stream invokes the callback when the control loop has
\* taken the completed session (Idle), with frames in the buffer.
C7_Witness ==
  \E s \in Streams :
    /\ cbpc[s] = "cb68"
    /\ ~is_recording
    /\ ~should_transcribe
    /\ lpc = "loop282"
    /\ audio_frames # << >>

\* The positions inside transcribe_and_type (type_text is called from it).
TransPcs == {"trans128", "trans143"}

\* C11: transcribe_and_type and type_text run only on the main thread: the
\* listener thread and the callback threads are never at a position inside
\* them, and a running audio callback can always take its next step,
\* whatever the other threads are doing.
C11_TranscribeOnlyInLoop ==
  /\ kpc \notin TransPcs
  /\ \A s \in Streams :
       /\ cbpc[s] \notin TransPcs
       /\ cbpc[s] # "idle" => ENABLED Callback(s)

\* C11 witness: the main thread is inside the transcription request while
\* the listener thread is inside toggle_recording and a callback is running.
C11_Witness ==
  /\ lpc = "trans143"
  /\ kpc \notin {"idle", "toggle"}
  /\ \E s \in Streams : cbpc[s] # "idle"

\* The condition of one token of the hotkey spec, as the matcher is
\* specified: a generic modifier by either side variant, a side-specific
\* modifier and a special key by that exact key, a character by a pressed
\* key carrying it (in either case).
TokenHolds(tok, pressed) ==
  CASE tok \in {"ctrl", "control"} -> ctrl_l \in pressed \/ ctrl_r \in pressed
    [] tok = "alt" -> alt_l \in pressed \/ alt_r \in pressed
    [] tok = "shift" -> shift_l \in pressed \/ shift_r \in pressed
    [] tok = "cmd" -> cmd_l \in pressed \/ cmd_r \in pressed
    [] tok \in {"ctrl_l", "ctrl_r", "alt_l", "alt_r", "shift_l", "shift_r",
                "cmd_l", "cmd_r"} -> KeyOf(tok) \in pressed
    [] tok \in {"esc", "escape"} -> esc \in pressed
    [] tok \in SpecialNames \ {"esc", "escape"} -> KeyOf(tok) \in pressed
    [] OTHER -> \E key \in pressed : key.kind = "code" /\ Lower(key.char) = tok

AllTokensHold(hs, pressed) ==
  \A i \in DOMAIN hs : TokenHolds(Lower(hs[i]), pressed)

\* C12: for a hotkey of valid tokens, is_hotkey_pressed is true iff every
\* token's condition holds in the pressed set, and it is false for the
\* pressed set without any key whose removal breaks a token's condition.
C12_MatcherCorrect ==
  (hotkey_str \in ValidHotkeys /\ matched # "unknown") =>
    /\ matched = "yes" <=> AllTokensHold(hotkey_str, pressed_keys)
    /\ \A key \in pressed_keys :
         ~AllTokensHold(hotkey_str, pressed_keys \ {key})
           => ~is_hotkey_pressed(pressed_keys \ {key}, parse_hotkey(hotkey_str))

\* C13: a single-character token is matched case-insensitively: once the
\* other tokens of the hotkey are held, is_hotkey_pressed is true iff every
\* character token t has a pressed character key reporting some c with
\* lower(c) = lower(t), so a reported 'A' satisfies the token 'a'.
C13_CharCaseInsensitive ==
  LET parts == parse_hotkey(hotkey_str)
      IsChar(i) == parts[i] \in SingleChars
  IN  ( /\ matched # "unknown"
        /\ hotkey_str \in ValidHotkeys
        /\ \A i \in DOMAIN parts :
             ~IsChar(i) => PartHeld(parts[i], pressed_keys) )
      => ( matched = "yes" <=>
             \A i \in DOMAIN parts :
               IsChar(i) =>
                 \E key \in pressed_keys :
                   /\ key.kind = "code"
                   /\ Lower(key.char) = Lower(hotkey_str[i]) )

\* C14: with an unrecognised token in the hotkey, is_hotkey_pressed is
\* false for every set of pressed keys, no key-event sequence fires the
\* toggle, and the listener keeps accepting key events.
C14_FailsClosed ==
  hotkey_str \in InvalidHotkeys =>
    /\ \A pressed \in SUBSET MatchKeys :
         ~is_hotkey_pressed(pressed, parse_hotkey(hotkey_str))
    /\ ~HotkeyHeld(pressed_keys)
    /\ kpc = "idle"
    /\ ~hotkey_pressed
    /\ ~is_recording
    /\ sessions = 0
    /\ \A key \in Keys : ENABLED PressEvent(key) /\ ENABLED ReleaseEvent(key)

\* C14 witness: every key of the default combination has been pressed under
\* a hotkey whose last token is unknown.
C14_Witness ==
  /\ hotkey_str = <<"ctrl", "alt", "foo">>
  /\ pressed_keys = {ctrl_l, alt_l, key0}
  /\ lastEvent.kind = "press"

\* C15: while the hotkey combination stays satisfied after every key
\* event, toggle_recording is called at most once: no key event calls it
\* when it was already called since the combination last became satisfied.
C15_OneTogglePerHold == [][Fires => ~firedHeld]_vars

\* C16: silence_start_time is set only while has_detected_speech is true,
\* in every reachable state of every interleaving of start_recording with
\* the audio callbacks.
C16_TimerOnlyAfterSpeech ==
  silence_start_time # NoTime => has_detected_speech

\* The first frame of the run of consecutive silent frames that the silent
\* frame i ends.
RunStart(sc, i) ==
  CHOOSE j \in 1..i :
    /\ \A k \in j..i : sc.silent[k]
    /\ j = 1 \/ ~sc.silent[j - 1]

\* The time from the arrival of the first frame of that run to the arrival
\* of frame i.
RunSpan(sc, i) == (i - RunStart(sc, i)) * sc.d

\* C17: a non-silent frame processed while recording leaves
\* silence_start_time cleared and has_detected_speech set, and the session
\* auto-stops only at a silent frame ending a run of consecutive silent
\* frames that follows a non-silent frame and spans at least
\* SILENCE_DURATION; silence before a non-silent frame does not count.
C17_NonSilentRestartsCountdown ==
  /\ (FrameDone /\ fidx >= 1 /\ is_recording /\ ~script.silent[fidx])
       => (silence_start_time = NoTime /\ has_detected_speech)
  /\ cbpc[1] = "cb85"
       => /\ script.silent[fidx]
          /\ RunStart(script, fidx) > 1
          /\ RunSpan(script, fidx) >= SILENCE_DURATION

\* C17 witness: the session auto-stops although an earlier run of silent
\* frames after speech was interrupted by a non-silent frame.
C17_Witness ==
  /\ cbpc[1] = "cb85"
  /\ \E j \in 2..fidx :
       /\ j < RunStart(script, fidx) - 1
       /\ script.silent[j]
       /\ ~script.silent[j - 1]

\* The control loop has taken a session that reached ReadyToTranscribe and
\* has not read its buffer yet.
HandOff == lpc \in {"loop282", "loop286", "trans128"}

\* C18: the buffer read by transcribe_and_type is the buffer of the session
\* that reached ReadyToTranscribe: no step changes the buffer between the
\* control loop taking the session and line 128 reading it, and the frames
\* read all come from the stream of one session, which is not recording.
C18_HandedBufferIsSessions ==
  [][ /\ HandOff => audio_frames' = audio_frames
      /\ (lpc = "trans128" /\ lpc' = "trans143") =>
           /\ ~is_recording
           /\ \E n \in 1..sessions :
                \A i \in DOMAIN handed' : handed'[i] = n
    ]_vars

\* The positions inside start_recording.
StartPcs == {"start101", "start102", "start104", "start105", "start108",
             "start114"}

\* C19: whenever is_recording is true and the listener is not inside
\* start_recording, the stream created for the current session is open.
C19_RecordingHasOpenStream ==
  (is_recording /\ kpc \notin StartPcs) =>
    /\ stream = sessions
    /\ stream # 0
    /\ streams[stream] = "open"

\* C20: transcribe_and_type is never called more often than
\* start_recording, and line 128 never reads a buffer that it has read
\* before and that was neither reset nor appended to since.
C20_OneTranscriptionPerSession ==
  [][ /\ transcribed' <= sessions'
      /\ (lpc = "trans128" /\ lpc' = "trans143") => ~bufferRead
    ]_vars

====
